---- MODULE Spec2Model ----
(***************************************************************************)
(* Model of srs_api.py: the spaced-repetition transition function          *)
(* calculate_srs_logic and the /calculate/ endpoint built on it.           *)
(*                                                                         *)
(* Numbers.  Every float the program handles on the modelled inputs is the *)
(* double nearest to a decimal with at most three fractional digits (the   *)
(* inputs by choice, the outputs because round(x, 2) returns the double    *)
(* nearest to a two-digit decimal).  A value of the state is therefore the *)
(* integer n standing for the double float(n / 1000).  Inside the          *)
(* functions the arithmetic is IEEE-754 binary64 arithmetic, carried out   *)
(* on records [neg, m, e] (value = +/- m * 2^e, m < 2^53 or m = 2^53) with *)
(* the mantissa held as a little-endian sequence of 15-bit limbs, since    *)
(* the products do not fit the 32-bit integers of TLC.                     *)
(***************************************************************************)
EXTENDS Integers, Sequences, FiniteSets

(***************************************************************************)
(* Natural numbers of arbitrary size: little-endian limbs, no leading      *)
(* zero limb, << >> is zero.                                               *)
(***************************************************************************)
Limb == 32768

RECURSIVE Pow2(_)
Pow2(k) == IF k = 0 THEN 1 ELSE 2 * Pow2(k - 1)

RECURSIVE Strip(_)
Strip(a) ==
    IF a = << >> THEN << >>
    ELSE IF a[Len(a)] = 0 THEN Strip(SubSeq(a, 1, Len(a) - 1))
    ELSE a

RECURSIVE BigFromInt(_)
BigFromInt(n) == IF n = 0 THEN << >> ELSE <<n % Limb>> \o BigFromInt(n \div Limb)

RECURSIVE BigToInt(_)
BigToInt(a) == IF a = << >> THEN 0 ELSE Head(a) + Limb * BigToInt(Tail(a))

RECURSIVE BigAddC(_, _, _)
BigAddC(a, b, c) ==
    IF a = << >> /\ b = << >> THEN (IF c = 0 THEN << >> ELSE <<c>>)
    ELSE LET x == IF a = << >> THEN 0 ELSE Head(a)
             y == IF b = << >> THEN 0 ELSE Head(b)
             s == x + y + c
         IN  <<s % Limb>> \o BigAddC(IF a = << >> THEN << >> ELSE Tail(a),
                                     IF b = << >> THEN << >> ELSE Tail(b),
                                     s \div Limb)

BigAdd(a, b) == BigAddC(a, b, 0)

\* a - b for a >= b
RECURSIVE BigSubC(_, _, _)
BigSubC(a, b, c) ==
    IF a = << >> THEN << >>
    ELSE LET y == IF b = << >> THEN 0 ELSE Head(b)
             d == Head(a) - y - c
         IN  <<IF d < 0 THEN d + Limb ELSE d>>
                \o BigSubC(Tail(a), IF b = << >> THEN << >> ELSE Tail(b),
                           IF d < 0 THEN 1 ELSE 0)

BigSub(a, b) == Strip(BigSubC(a, b, 0))

\* -1, 0, 1 as a < b, a = b, a > b
RECURSIVE BigCmpFrom(_, _, _)
BigCmpFrom(a, b, k) ==
    IF k = 0 THEN 0
    ELSE IF a[k] < b[k] THEN -1
    ELSE IF a[k] > b[k] THEN 1
    ELSE BigCmpFrom(a, b, k - 1)

BigCmp(a, b) ==
    IF Len(a) < Len(b) THEN -1
    ELSE IF Len(a) > Len(b) THEN 1
    ELSE BigCmpFrom(a, b, Len(a))

RECURSIVE BigMulSmallC(_, _, _)
BigMulSmallC(a, k, c) ==
    IF a = << >> THEN (IF c = 0 THEN << >> ELSE <<c>>)
    ELSE LET p == Head(a) * k + c
         IN  <<p % Limb>> \o BigMulSmallC(Tail(a), k, p \div Limb)

\* a * k for 0 <= k < Limb
BigMulSmall(a, k) == Strip(BigMulSmallC(a, k, 0))

RECURSIVE BigMul(_, _)
BigMul(a, b) ==
    IF a = << >> \/ b = << >> THEN << >>
    ELSE BigAdd(BigMulSmall(a, Head(b)), Strip(<<0>> \o BigMul(a, Tail(b))))

\* quotient and remainder of a by d, 0 < d <= Limb
RECURSIVE BigDivSmallFrom(_, _, _, _)
BigDivSmallFrom(a, d, k, r) ==
    IF k = 0 THEN [q |-> << >>, r |-> r]
    ELSE LET cur  == r * Limb + a[k]
             rest == BigDivSmallFrom(a, d, k - 1, cur % d)
         IN  [q |-> rest.q \o <<cur \div d>>, r |-> rest.r]

BigDivSmall(a, d) ==
    LET x == BigDivSmallFrom(a, d, Len(a), 0)
    IN  [q |-> Strip(x.q), r |-> x.r]

RECURSIVE Zeros(_)
Zeros(k) == IF k = 0 THEN << >> ELSE <<0>> \o Zeros(k - 1)

\* a * 2^s
BigShl(a, s) ==
    IF a = << >> THEN << >>
    ELSE Zeros(s \div 15) \o BigMulSmall(a, Pow2(s % 15))

\* floor(a / 2^s)
BigShr(a, s) ==
    IF Len(a) <= s \div 15 THEN << >>
    ELSE BigDivSmall(SubSeq(a, (s \div 15) + 1, Len(a)), Pow2(s % 15)).q

RECURSIVE BitLenInt(_)
BitLenInt(n) == IF n = 0 THEN 0 ELSE 1 + BitLenInt(n \div 2)

BitLen(a) == IF a = << >> THEN 0 ELSE 15 * (Len(a) - 1) + BitLenInt(a[Len(a)])

BigIsOdd(a) == a # << >> /\ Head(a) % 2 = 1

\* the integer nearest to a / 2^s, ties to the even one
BigShrRound(a, s) ==
    IF s = 0 THEN a
    ELSE LET q    == BigShr(a, s)
             rem  == BigSub(a, BigShl(q, s))
             half == BigShl(<<1>>, s - 1)
             c    == BigCmp(rem, half)
         IN  IF c > 0 \/ (c = 0 /\ BigIsOdd(q)) THEN BigAdd(q, <<1>>) ELSE q

(***************************************************************************)
(* IEEE-754 binary64 values and the operations of Python's float that the  *)
(* program uses.  A value is [neg, m, e], standing for +/- m * 2^e.        *)
(***************************************************************************)
Mantissa == 53

FloatZero == [neg |-> FALSE, m |-> << >>, e |-> 0]

\* the double nearest to +/- N * 2^e (round to nearest, ties to even)
RoundToDouble(neg, N, e) ==
    IF N = << >> THEN FloatZero
    ELSE IF BitLen(N) <= Mantissa THEN [neg |-> neg, m |-> N, e |-> e]
    ELSE [neg |-> neg,
          m   |-> BigShrRound(N, BitLen(N) - Mantissa),
          e   |-> e + BitLen(N) - Mantissa]

\* float(n / 1000): the double nearest to the decimal with digits n, as
\* float("2.345") and the literals 0.15, 1.2, 1.30, 2.50 produce it
float(n) ==
    IF n = 0 THEN FloatZero
    ELSE LET a   == IF n < 0 THEN -n ELSE n
             k0  == 63 - BitLenInt(a)
             q0  == BigDivSmall(BigShl(BigFromInt(a), k0), 1000).q
             k   == IF BitLen(q0) > Mantissa THEN k0 - 1 ELSE k0
             d   == BigDivSmall(BigShl(BigFromInt(a), k), 1000)
             up  == 2 * d.r > 1000 \/ (2 * d.r = 1000 /\ BigIsOdd(d.q))
         IN  [neg |-> n < 0,
              m   |-> IF up THEN BigAdd(d.q, <<1>>) ELSE d.q,
              e   |-> -k]

float_neg(x) == IF x.m = << >> THEN x ELSE [x EXCEPT !.neg = ~x.neg]

\* x * y
float_mul(x, y) == RoundToDouble(x.neg # y.neg, BigMul(x.m, y.m), x.e + y.e)

\* x + y
float_add(x, y) ==
    IF x.m = << >> THEN y
    ELSE IF y.m = << >> THEN x
    ELSE LET emin == IF x.e < y.e THEN x.e ELSE y.e
             X    == BigShl(x.m, x.e - emin)
             Y    == BigShl(y.m, y.e - emin)
             c    == BigCmp(X, Y)
         IN  IF x.neg = y.neg THEN RoundToDouble(x.neg, BigAdd(X, Y), emin)
             ELSE IF c = 0 THEN FloatZero
             ELSE IF c > 0 THEN RoundToDouble(x.neg, BigSub(X, Y), emin)
             ELSE RoundToDouble(y.neg, BigSub(Y, X), emin)

\* x - y
float_sub(x, y) == float_add(x, float_neg(y))

\* x < y  (the difference of two doubles never rounds to zero or changes sign)
float_lt(x, y) == LET d == float_sub(x, y) IN d.m # << >> /\ d.neg

\* max(x, y) of Python: the first argument unless the second is greater
float_max(x, y) == IF float_lt(x, y) THEN y ELSE x

\* the integer nearest to x * c for a small integer c > 0, ties to even
NearestInt(x, c) ==
    LET N == BigMulSmall(x.m, c)
        k == BigToInt(IF x.e >= 0 THEN BigShl(N, x.e) ELSE BigShrRound(N, -x.e))
    IN  IF x.neg THEN -k ELSE k

\* round(x, 2): the decimal with two digits nearest to the exact value of x,
\* ties to even, returned as the double nearest to it (in thousandths)
round2(x) == 10 * NearestInt(x, 100)

\* round(x): the nearest integer, ties to even
round0(x) == NearestInt(x, 1)

(***************************************************************************)
(* Configuration constants, in thousandths.                                *)
(***************************************************************************)
FACTOR_MODIFIER == 150
HARD_FACTOR == 1200
MIN_FACTOR == 1300
DEFAULT_INITIAL_FACTOR == 2500
DEFAULT_INITIAL_INTERVAL == 0
\* the literal 0.20 of the signal 1 branch
HardDecrease == 200

\* the doubles of the literals
MinFactor == float(MIN_FACTOR)
FactorModifier == float(FACTOR_MODIFIER)
HardFactor == float(HARD_FACTOR)
HardDecreaseFloat == float(HardDecrease)
One == float(1000)

(***************************************************************************)
(* calculate_srs_logic.  The arguments are the thousandths of the floats   *)
(* passed in; the result is either the ValueError raised or the pair       *)
(* returned, again in thousandths.                                         *)
(***************************************************************************)
Raise(msg) == [raised |-> TRUE, error |-> msg]

Return(new_interval, new_factor) ==
    [raised |-> FALSE, interval |-> new_interval, factor |-> new_factor]

\* precondition without its check of the factor
precondition_factor_unchecked(current_interval_days, current_factor, signal) ==
    IF ~(0 <= signal /\ signal <= 4) THEN
        "Internal Logic Error: Signal must be an integer between 0 and 4."
    ELSE IF current_interval_days < 0 THEN
        "Current interval days cannot be negative."
    ELSE ""

\* the three precondition checks, in the order of the code; "" when all pass
precondition(current_interval_days, current_factor, signal) ==
    IF ~(0 <= signal /\ signal <= 4) THEN
        "Internal Logic Error: Signal must be an integer between 0 and 4."
    ELSE IF current_factor <= 0 THEN
        "Current factor must be greater than 0."
    ELSE IF current_interval_days < 0 THEN
        "Current interval days cannot be negative."
    ELSE ""

\* branch_factor whose signal 2 forgets the floor
branch_factor_unfloored_2(current_factor, signal) ==
    CASE signal = 1 ->
            float_max(MinFactor, float_sub(current_factor, HardDecreaseFloat))
      [] signal = 2 -> float_sub(current_factor, FactorModifier)
      [] signal = 4 -> float_add(current_factor, FactorModifier)
      [] OTHER -> current_factor

\* branch_factor whose signal 1 forgets the floor
branch_factor_unfloored_1(current_factor, signal) ==
    CASE signal = 1 -> float_sub(current_factor, HardDecreaseFloat)
      [] signal = 2 ->
            float_max(MinFactor, float_sub(current_factor, FactorModifier))
      [] signal = 4 -> float_add(current_factor, FactorModifier)
      [] OTHER -> current_factor

\* new_factor as the branch of the signal leaves it (before rounding)
branch_factor(current_factor, signal) ==
    CASE signal = 1 ->
            float_max(MinFactor, float_sub(current_factor, HardDecreaseFloat))
      [] signal = 2 ->
            float_max(MinFactor, float_sub(current_factor, FactorModifier))
      [] signal = 4 -> float_add(current_factor, FactorModifier)
      [] OTHER -> current_factor

\* branch_interval whose signal 4 multiplies by the factor already increased
branch_interval_bumped_first(current_interval_days, current_factor, signal) ==
    CASE signal = 1 -> FloatZero
      [] signal = 2 -> float_mul(current_interval_days, HardFactor)
      [] signal = 3 ->
            IF float_lt(current_interval_days, One) THEN One
            ELSE float_mul(current_interval_days, current_factor)
      [] signal = 4 ->
            IF float_lt(current_interval_days, One)
            THEN float_max(One, float_mul(One, float_add(current_factor, FactorModifier)))
            ELSE float_mul(current_interval_days,
                           float_add(current_factor, FactorModifier))
      [] OTHER -> current_interval_days

\* branch_interval that resets the interval on signal 0 as on signal 1
branch_interval_reset_0(current_interval_days, current_factor, signal) ==
    CASE signal \in {0, 1} -> FloatZero
      [] signal = 2 -> float_mul(current_interval_days, HardFactor)
      [] signal = 3 ->
            IF float_lt(current_interval_days, One) THEN One
            ELSE float_mul(current_interval_days, current_factor)
      [] signal = 4 ->
            IF float_lt(current_interval_days, One)
            THEN float_max(One, float_mul(One, current_factor))
            ELSE float_mul(current_interval_days, current_factor)
      [] OTHER -> current_interval_days

\* new_interval as the branch of the signal leaves it (before clamp and rounding)
branch_interval(current_interval_days, current_factor, signal) ==
    CASE signal = 1 -> FloatZero
      [] signal = 2 -> float_mul(current_interval_days, HardFactor)
      [] signal = 3 ->
            IF float_lt(current_interval_days, One) THEN One
            ELSE float_mul(current_interval_days, current_factor)
      [] signal = 4 ->
            IF float_lt(current_interval_days, One)
            THEN float_max(One, float_mul(One, current_factor))
            ELSE float_mul(current_interval_days, current_factor)
      [] OTHER -> current_interval_days

calculate_srs_logic(current_interval_days, current_factor, signal) ==
    LET error == precondition(current_interval_days, current_factor, signal) IN
    IF error # "" THEN Raise(error)
    ELSE LET factor0      == float(current_factor)
             new_interval == branch_interval(float(current_interval_days),
                                             factor0, signal)
             new_factor   == branch_factor(factor0, signal)
         IN  Return(round2(float_max(FloatZero, new_interval)), round2(new_factor))

(***************************************************************************)
(* The /calculate/ endpoint.                                               *)
(*                                                                         *)
(* The srs field of a request is [kind, factor, interval]:                 *)
(*   kind "null"   the field is absent or null,                            *)
(*   kind "empty"  the empty string,                                       *)
(*   kind "other"  a string that is no 'Day, Mon D F/I' text at all,       *)
(*   kind "text"   the string 'Fri, Apr 25 F/I' whose F and I are the      *)
(*                 numerals of factor / 1000 and interval / 1000 with      *)
(*                 three fractional digits (and a minus sign if negative). *)
(* A date is a day number (date.toordinal()).                              *)
(***************************************************************************)
Srs(kind, factor, interval) == [kind |-> kind, factor |-> factor, interval |-> interval]

\* signal: int = Field(..., ge=1, le=4)
SRSInput(signal) == 1 <= signal /\ signal <= 4

\* SRS_STRING_PATTERN.match: the numerals are \d+\.\d+, which admits no sign
SRS_STRING_PATTERN(srs) == srs.kind = "text" /\ srs.factor >= 0 /\ srs.interval >= 0

HTTPException(status_code, detail) == [status |-> status_code, detail |-> detail]

InvalidFormat ==
    "Invalid 'srs' string format in JSON. Expected 'Day, Mon DayNum F.FF/I.II', e.g., 'Fri, Apr 25 23.15/45.62'"

\* current_values testing "srs is not None" where the code tests truthiness
current_values_not_none(srs) ==
    IF srs.kind # "null" THEN
        IF ~SRS_STRING_PATTERN(srs) THEN
            [ok |-> FALSE,
             error |-> HTTPException(400, InvalidFormat)]
        ELSE [ok |-> TRUE, factor |-> srs.factor, interval |-> srs.interval]
    ELSE [ok |-> TRUE, factor |-> DEFAULT_INITIAL_FACTOR,
          interval |-> DEFAULT_INITIAL_INTERVAL]

\* the arguments the endpoint passes to calculate_srs_logic, or the
\* HTTPException of an srs string that does not parse
current_values(srs) ==
    IF srs.kind \notin {"null", "empty"} THEN
        IF ~SRS_STRING_PATTERN(srs) THEN
            [ok |-> FALSE,
             error |-> HTTPException(400, InvalidFormat)]
        ELSE [ok |-> TRUE, factor |-> srs.factor, interval |-> srs.interval]
    ELSE [ok |-> TRUE, factor |-> DEFAULT_INITIAL_FACTOR,
          interval |-> DEFAULT_INITIAL_INTERVAL]

\* next_review_date going back in time
next_review_date_backwards(today, days_to_add) == today - days_to_add

\* date.today() + timedelta(days=days_to_add)
next_review_date(today, days_to_add) == today + days_to_add

\* f"{x:.2f}": the numeral with two fractional digits, as its hundredths
format_2f(x) == NearestInt(float(x), 100)

\* the try block of the endpoint, r being what calculate_srs_logic did: the
\* HTTPException raised, or the output_string returned, "<date> F.FF/I.II",
\* as its date and the hundredths of its two numerals
try_block(r, today) ==
    IF r.raised THEN [returned |-> FALSE, error |-> HTTPException(400, r.error)]
    ELSE [returned |-> TRUE,
          output_string |->
              [date     |-> next_review_date(today, round0(float(r.interval))),
               factor   |-> format_2f(r.factor),
               interval |-> format_2f(r.interval)]]

\* the detail of the 422 answer to a signal that SRSInput rejects
RequestValidationError(signal) ==
    IF signal < 1 THEN "Input should be greater than or equal to 1"
    ELSE "Input should be less than or equal to 4"

\* @app.post("/calculate/", response_class=str): the framework builds the
\* response of a handler that returned as response_class(content,
\* status_code=..., background=...), and str() takes no such keyword
\* arguments: the TypeError is answered with status 500, whatever the content
response_class(content) == HTTPException(500, "Internal Server Error")

(***************************************************************************)
(* The state machine.  The service keeps no state; what evolves is the     *)
(* (interval, factor) pair of one item, held by the caller, who passes it  *)
(* in and stores what comes back.  last records the latest operation: its  *)
(* inputs, whether calculate_srs_logic was called and with what, and what  *)
(* came back.                                                              *)
(***************************************************************************)
VARIABLES interval, factor, budget, last

vars == <<interval, factor, budget, last>>

\* bounds of the exploration
MaxCalls == 2
MaxHistory == 8
MaxInterval == 80000
MaxFactor == 25000
MaxDay == 1

\* the pairs a caller may start from, valid and invalid, in thousandths
IntervalInputs == {-500, 0, 999, 1000, 1234, 1500, 10000, 45620}
FactorInputs == {-1000, 0, 4, 1300, 1505, 2300, 2345, 2650, 23150}
\* the signals a caller may pass to calculate_srs_logic and post to the endpoint
Signals == -1 .. 5
Days == 0 .. MaxDay

SrsInputs == {Srs("null", 0, 0), Srs("empty", 0, 0), Srs("other", 0, 0),
              Srs("text", factor, interval)}

Init ==
    /\ interval \in IntervalInputs
    /\ factor \in FactorInputs
    /\ budget = MaxCalls
    /\ last = [op |-> "init", called |-> FALSE]

\* a review history: a new item, at the defaults
InitHistory ==
    /\ interval = DEFAULT_INITIAL_INTERVAL
    /\ factor = DEFAULT_INITIAL_FACTOR
    /\ budget = MaxHistory
    /\ last = [op |-> "init", called |-> FALSE]

InBounds == budget > 0 /\ interval <= MaxInterval /\ factor <= MaxFactor

\* a direct call calculate_srs_logic(interval, factor, signal)
Transition(signal) ==
    /\ InBounds
    /\ \E r \in {calculate_srs_logic(interval, factor, signal)} :
        /\ last' = [op |-> "logic", called |-> TRUE, interval |-> interval,
                    factor |-> factor, signal |-> signal, result |-> r]
        /\ interval' = IF r.raised THEN interval ELSE r.interval
        /\ factor' = IF r.raised THEN factor ELSE r.factor
    /\ budget' = budget - 1

\* POST /calculate/ with body {srs, signal}, today being what date.today()
\* returns.  The caller has a new pair to store only from a 200 response,
\* and no response is one: the pair stays what it was.
calculate_next_review_json_in_string_out(srs, signal) ==
    /\ InBounds
    /\ budget' = budget - 1
    /\ IF ~SRSInput(signal) THEN
            /\ last' = [op |-> "endpoint", called |-> FALSE, srs |-> srs,
                        signal |-> signal,
                        response |-> HTTPException(422, RequestValidationError(signal))]
            /\ UNCHANGED <<interval, factor>>
       ELSE IF ~current_values(srs).ok THEN
            /\ last' = [op |-> "endpoint", called |-> FALSE, srs |-> srs,
                        signal |-> signal, response |-> current_values(srs).error]
            /\ UNCHANGED <<interval, factor>>
       ELSE \E cur \in {current_values(srs)} :
            \E r \in {calculate_srs_logic(cur.interval, cur.factor, signal)} :
                \E today \in Days :
                  LET handler == try_block(r, today) IN
                    /\ last' = [op |-> "endpoint", called |-> TRUE, srs |-> srs,
                                today |-> today, interval |-> cur.interval,
                                factor |-> cur.factor, signal |-> signal,
                                result |-> r, handler |-> handler,
                                response |-> IF handler.returned
                                             THEN response_class(handler.output_string)
                                             ELSE handler.error]
                    /\ UNCHANGED <<interval, factor>>

Next ==
    \/ \E signal \in Signals : Transition(signal)
    \/ \E srs \in SrsInputs, signal \in Signals :
            calculate_next_review_json_in_string_out(srs, signal)

Spec == Init /\ [][Next]_vars

\* a review history applies signals of the domain only
NextHistory == \E signal \in 0 .. 4 : Transition(signal)

SpecHistory == InitHistory /\ [][NextHistory]_vars

(***************************************************************************)
(* Properties.                                                             *)
(***************************************************************************)
Abs(x) == IF x < 0 THEN -x ELSE x

\* x is a two-decimal value within half a hundredth of the exact value y
\* (both in thousandths)
Rounded2(x, y) == x % 10 = 0 /\ Abs(x - y) <= 5

\* the latest operation called calculate_srs_logic within its contract
ValidCall ==
    /\ last.called
    /\ last.interval >= 0
    /\ last.factor > 0
    /\ last.signal \in 0 .. 4

\* the handler of the latest request ran to its return statement
HandlerReturned == last.op = "endpoint" /\ last.called /\ last.handler.returned

\* the response to the latest request carries the review string
\* "<date> F.FF/I.II" of the given date and hundredths
Delivered(date, factor_2f, interval_2f) ==
    /\ last.response.status = 200
    /\ last.response.date = date
    /\ last.response.factor = factor_2f
    /\ last.response.interval = interval_2f

\* C1: every call within the contract (interval >= 0, factor > 0, signal in
\* 0..4) returns, and returns a factor > 0 and an interval >= 0, so that what
\* it returns is again within the contract and a history never raises.
C1_FactorStaysPositive ==
    ValidCall =>
        /\ ~last.result.raised
        /\ last.result.factor > 0
        /\ last.result.interval >= 0

\* C2 as stated: signal 0 returns the interval and the factor exactly as
\* passed, for every interval >= 0 and factor > 0.
C2_Signal0Identity ==
    (ValidCall /\ last.signal = 0) =>
        last.result = Return(last.interval, last.factor)

\* C2 as amended: signal 0 returns the interval and the factor each rounded
\* to two decimals, hence exactly as passed when they have at most two
\* decimals.
C2_Signal0Rounds ==
    (ValidCall /\ last.signal = 0) =>
        /\ ~last.result.raised
        /\ Rounded2(last.result.interval, last.interval)
        /\ Rounded2(last.result.factor, last.factor)
        /\ (last.interval % 10 = 0 /\ last.factor % 10 = 0) =>
                last.result = Return(last.interval, last.factor)

C2_Witness ==
    /\ last.op = "logic"
    /\ last.signal = 0
    /\ last.interval = 45620
    /\ last.factor = 23150
    /\ last.result = Return(45620, 23150)

\* C3: with signal 1 or 2 the returned factor is at least 1.30, and factor
\* 1.30 with signal 2 returns factor exactly 1.30.
C3_FactorFloor ==
    (ValidCall /\ last.signal \in {1, 2}) =>
        /\ ~last.result.raised
        /\ last.result.factor >= MIN_FACTOR
        /\ (last.signal = 2 /\ last.factor = MIN_FACTOR) =>
                last.result.factor = MIN_FACTOR

C3_Witness ==
    /\ last.called
    /\ last.signal = 2
    /\ last.factor = MIN_FACTOR
    /\ last.interval = 10000
    /\ last.result = Return(12000, MIN_FACTOR)

\* C4: every call within the contract returns an interval >= 0, and the date
\* the endpoint computes from it (today plus the rounded interval) is never
\* earlier than the day of the request.
C4_NonNegativity ==
    /\ ValidCall => (~last.result.raised /\ last.result.interval >= 0)
    /\ HandlerReturned =>
          /\ last.handler.output_string.interval >= 0
          /\ last.handler.output_string.date >= last.today

C4_Witness ==
    /\ HandlerReturned
    /\ last.signal = 2
    /\ last.interval = 45620
    /\ last.result.interval = 54740
    /\ last.handler.output_string.date = last.today + 55

\* C5: a call with a signal outside 0..4, a factor <= 0 or an interval < 0
\* raises and returns no pair, the caller's pair stays what it was, and the
\* endpoint answers it with status 400 and no review string.
C5_PreconditionErrors ==
    (last.called /\ (last.signal \notin 0 .. 4 \/ last.factor <= 0 \/ last.interval < 0)) =>
        /\ last.result.raised
        /\ DOMAIN last.result = {"raised", "error"}
        /\ last.op = "logic" => (interval = last.interval /\ factor = last.factor)
        /\ last.op = "endpoint" =>
              /\ ~last.handler.returned
              /\ last.response.status = 400
              /\ DOMAIN last.response = {"status", "detail"}

C5_Witness ==
    /\ last.op = "endpoint"
    /\ last.called
    /\ last.factor = 0
    /\ last.result.raised
    /\ ~last.handler.returned
    /\ last.response = HTTPException(400, "Current factor must be greater than 0.")

\* C6: from the new-item defaults signal 4 returns interval 1.0 and factor
\* 2.65, and the endpoint called with srs null and signal 4 answers with
\* the date of tomorrow, factor 2.65 and interval 1.00.
C6_NewItemEasy ==
    /\ (last.called /\ last.interval = DEFAULT_INITIAL_INTERVAL
            /\ last.factor = DEFAULT_INITIAL_FACTOR /\ last.signal = 4) =>
                last.result = Return(1000, 2650)
    /\ (last.op = "endpoint" /\ last.srs.kind = "null" /\ last.signal = 4) =>
            Delivered(last.today + 1, 265, 100)

\* C7: with signal 3 or 4 and an interval >= 1 the returned interval is
\* interval * factor rounded to two decimals, the factor being the one
\* passed in; the returned factor is the factor passed in (signal 3) or that
\* factor + 0.15 (signal 4), rounded to two decimals; (10.0, 2.3, 3) gives
\* (23.0, 2.3).
C7_UpdateOrder ==
    (ValidCall /\ last.signal \in {3, 4} /\ last.interval >= 1000) =>
        /\ ~last.result.raised
        /\ last.result.interval % 10 = 0
        /\ Abs(1000 * last.result.interval - last.interval * last.factor) <= 5000
        /\ last.signal = 3 => Rounded2(last.result.factor, last.factor)
        /\ last.signal = 4 => Rounded2(last.result.factor, last.factor + FACTOR_MODIFIER)
        /\ (last.interval = 10000 /\ last.factor = 2300 /\ last.signal = 3) =>
                last.result = Return(23000, 2300)

C7_Witness ==
    /\ last.called
    /\ last.signal = 4
    /\ last.interval = 10000
    /\ last.factor = 2300
    /\ last.result = Return(23000, 2450)

\* C8: signal 1 returns interval 0 and the factor max(1.30, factor - 0.20)
\* rounded to two decimals, (45.62, 23.15, 1) gives (0.0, 22.95), and the
\* endpoint's response carries the day of the request as its date.
C8_Signal1Resets ==
    (ValidCall /\ last.signal = 1) =>
        /\ ~last.result.raised
        /\ last.result.interval = 0
        /\ Rounded2(last.result.factor,
                    IF last.factor - HardDecrease > MIN_FACTOR
                    THEN last.factor - HardDecrease ELSE MIN_FACTOR)
        /\ (last.interval = 45620 /\ last.factor = 23150) =>
                last.result = Return(0, 22950)
        /\ last.op = "endpoint" =>
              /\ last.response.status = 200
              /\ last.response.date = last.today
              /\ last.response.interval = 0

\* C9: a request whose srs is absent, null or empty and whose signal is in
\* 1..4 calls calculate_srs_logic with interval 0.0 and factor 2.50; with
\* signal 3 the result is (1.0, 2.50), which the endpoint renders as the
\* string of the date of tomorrow, factor 2.50 and interval 1.00.
C9_NewItemDefaults ==
    (last.op = "endpoint" /\ last.srs.kind \in {"null", "empty"}
        /\ last.signal \in 1 .. 4) =>
            /\ last.called
            /\ last.interval = DEFAULT_INITIAL_INTERVAL
            /\ last.factor = DEFAULT_INITIAL_FACTOR
            /\ last.signal = 3 =>
                  /\ last.result = Return(1000, 2500)
                  /\ last.handler.returned
                  /\ last.handler.output_string =
                        [date |-> last.today + 1, factor |-> 250, interval |-> 100]

C9_Witness ==
    /\ HandlerReturned
    /\ last.srs.kind = "empty"
    /\ last.signal = 3
    /\ last.result = Return(1000, 2500)
    /\ last.handler.output_string.date = last.today + 1

\* C10: in a review history that starts at the new-item defaults and applies
\* signals 0..4, every state has factor >= 1.30 and interval >= 0, both
\* multiples of 0.01, and no call raises.
C10_HistoryInvariant ==
    /\ factor >= MIN_FACTOR
    /\ interval >= 0
    /\ factor % 10 = 0
    /\ interval % 10 = 0
    /\ last.called => ~last.result.raised

\* seven signals 1 in a row: the floor has been reached and held
C10_Witness ==
    /\ budget = MaxHistory - 7
    /\ last.called
    /\ last.signal = 1
    /\ last.factor = MIN_FACTOR
    /\ factor = MIN_FACTOR
    /\ interval = 0

====
